---- MODULE Spec2Model ----
(***************************************************************************)
(* Model of ivy_builder/dataset.py: the bounded Cache, the index           *)
(* arithmetic of Dataset (wrap, split by cache, base-range resolution),    *)
(* the single-process query algorithm Dataset._get_item and the worker     *)
(* pool protocol of Dataset.__getitem__ / Dataset._worker_fn.              *)
(*                                                                         *)
(* A slice request is a record [num, start, stop]: num = TRUE is a point   *)
(* index (start = stop = the index), num = FALSE is slice(start, stop, 1). *)
(* A container result is a record [unit, x]: x is the sequence of element  *)
(* values, unit = TRUE marks the result of a point query (one element,     *)
(* not wrapped in a list).                                                 *)
(***************************************************************************)
EXTENDS Integers, Sequences, FiniteSets, TLC

\* ------------------------------------------------------------------ bounds
\* size of the dataset of the modelled stage (an integer size)
Size == 3
\* largest cache_size a stage is built with
MaxCacheSize == 2
\* number of queries issued on the single-process stage
MaxQueries == 3
\* number of queries issued by a caller that issues point queries only
MaxPointQueries == 5
\* number of put operations issued on a bare Cache
MaxPuts == 4
\* range queries issued on the stage with a worker pool
MaxPoolQueries == 2

\* workers of the pool (num_processes of the pooled stage)
NumProcesses == 2
\* largest batch_size passed to Dataset.batch
MaxBatchSize == 2
\* largest number of batches of a batch stage
MaxBatches == 2
\* number of queries issued on a batch stage and its base dataset
MaxBatchQueries == 2
\* point queries issued on the stage with a worker pool
MaxPoolPoints == 1
\* invocations of Dataset._end_multiprocessing on the pooled stage
MaxTeardowns == 2
\* largest num_processes of a fan-out examined on its own
MaxWorkers == 4
\* widest range of a fan-out examined on its own
MaxFanWidth == 5

\* keys put into the bare cache
CacheKeys == 0 .. Size
\* values put into the bare cache
CacheVals == {7, 8}
\* raw indices a caller passes: below zero, in range, and beyond the size
RawStarts == (0 - 1) .. (Size + 1)
RawStops == (0 - 1) .. (Size + 2)
\* starts of the ranges queried on the pooled stage: aligned and not
PoolStarts == {0, 1}

\* ------------------------------------------------------------ base dataset
\* the base dataset is a container of Size elements; element i holds 10 + i
BaseDataset == [i \in 1 .. Size |-> 10 + (i - 1)]

\* the container of n elements a stage of size n is built on
Container(n) == [i \in 1 .. n |-> 10 + (i - 1)]

\* the stage's trans_fn, applied element-wise (elementwise_query_fn = True)
TransFn(v) == 2 * v + 1

\* ------------------------------------------------------------------ helpers
Number(i) == [num |-> TRUE, start |-> i, stop |-> i]
Slice(a, b) == [num |-> FALSE, start |-> a, stop |-> b]

Min(a, b) == IF a < b THEN a ELSE b

\* Python's seq[a:b] for 0 <= a, 0 <= b: bounds are clamped to the length
PySlice(s, a, b) == SubSeq(s, a + 1, Min(b, Len(s)))

RECURSIVE Concat(_)
Concat(ss) == IF ss = << >> THEN << >> ELSE Head(ss) \o Concat(Tail(ss))

\* position of key k in the sequence s (0 when absent)
RECURSIVE IndexOf(_, _)
IndexOf(s, k) ==
    IF s = << >> THEN 0
    ELSE IF s[Len(s)] = k THEN Len(s)
    ELSE IndexOf(SubSeq(s, 1, Len(s) - 1), k)

Remove(s, k) == SelectSeq(s, LAMBDA e : e # k)

\* -------------------------------------------------------------------- Cache
\* Cache.__init__
NewCache(max_size) ==
    [max_size |-> max_size, used_keys |-> << >>, dict |-> << >>]

\* Cache.__contains__
Contains(c, key) == key \in DOMAIN c.dict

\* Cache.__getitem__ (a plain dictionary read: recency is not touched)
CacheGet(c, key) == c.dict[key]

DictDel(d, key) == [k \in (DOMAIN d) \ {key} |-> d[k]]
DictSet(d, key, value) ==
    [k \in (DOMAIN d) \cup {key} |-> IF k = key THEN value ELSE d[k]]

\* Cache.__setitem__ with the refresh of an existing key left out
CachePutNoRefresh(c, key, value) ==
    IF Contains(c, key)
    THEN [cache |-> c, err |-> FALSE]
    ELSE LET appended == Append(c.used_keys, key) IN
         IF Len(appended) > c.max_size
         THEN LET key_to_del == Head(appended)
                  popped == Tail(appended) IN
              IF key_to_del \in DOMAIN c.dict
              THEN [cache |-> [c EXCEPT !.used_keys = popped,
                                        !.dict = DictSet(DictDel(c.dict, key_to_del),
                                                         key, value)],
                    err |-> FALSE]
              ELSE [cache |-> [c EXCEPT !.used_keys = popped], err |-> TRUE]
         ELSE [cache |-> [c EXCEPT !.used_keys = appended,
                                   !.dict = DictSet(c.dict, key, value)],
               err |-> FALSE]

\* Cache.__setitem__: the cache after the put and whether the put raised
\* (del self._dict[key_to_del] raises KeyError when the key is not stored,
\* after the key was popped from the recency list)
CachePut(c, key, value) ==
    IF Contains(c, key)
    THEN [cache |-> [c EXCEPT !.used_keys = Append(Remove(c.used_keys, key), key)],
          err |-> FALSE]
    ELSE LET appended == Append(c.used_keys, key) IN
         IF Len(appended) > c.max_size
         THEN LET key_to_del == Head(appended)
                  popped == Tail(appended) IN
              IF key_to_del \in DOMAIN c.dict
              THEN [cache |-> [c EXCEPT !.used_keys = popped,
                                        !.dict = DictSet(DictDel(c.dict, key_to_del),
                                                         key, value)],
                    err |-> FALSE]
              ELSE [cache |-> [c EXCEPT !.used_keys = popped], err |-> TRUE]
         ELSE [cache |-> [c EXCEPT !.used_keys = appended,
                                   !.dict = DictSet(c.dict, key, value)],
               err |-> FALSE]

\* ---------------------------------------------------------- index arithmetic
\* Dataset._wrap_slice_obj with a negative point index mirrored, not wrapped
WrapSliceObjMirrored(so, size) ==
    IF so.num
    THEN Number(IF so.start < 0 THEN (0 - so.start) % size ELSE so.start % size)
    ELSE Slice(so.start % size,
               IF so.stop # size THEN so.stop % size ELSE so.stop)

\* Dataset._wrap_slice_obj (math.ceil(self.size) is the size: it is an integer)
WrapSliceObj(so, size) ==
    IF so.num
    THEN Number(so.start % size)
    ELSE Slice(so.start % size,
               IF so.stop # size THEN so.stop % size ELSE so.stop)

\* Dataset._wrap_base_slice_obj with the halves of a wrapped range swapped
WrapBaseSliceObjSwapped(so, size) ==
    IF so.num
    THEN << so >>
    ELSE LET so1 == IF so.stop = 0 THEN Slice(so.start, size) ELSE so IN
         IF so1.stop < so1.start
         THEN << Slice(0, so1.stop), Slice(so1.start, size) >>
         ELSE << so1 >>

\* Dataset._wrap_base_slice_obj: the one or two base requests of a request
WrapBaseSliceObj(so, size) ==
    IF so.num
    THEN << so >>
    ELSE LET so1 == IF so.stop = 0 THEN Slice(so.start, size) ELSE so IN
         IF so1.stop < so1.start
         THEN << Slice(so1.start, size), Slice(0, so1.stop) >>
         ELSE << so1 >>

\* the loop of Dataset._split_slice_obj over np.arange(start, stop, 1.):
\* i is the index examined, cur the start of the pending uncached run
RECURSIVE SplitLoop(_, _, _, _, _)
SplitLoop(i, stop, cur, acc, c) ==
    IF i >= stop
    THEN [start |-> cur, slice_objs |-> acc]
    ELSE IF Contains(c, i)
         THEN SplitLoop(i + 1, stop, i + 1,
                        acc \o (IF i # cur
                                THEN << [cached |-> FALSE, so |-> Slice(cur, i)] >>
                                ELSE << >>)
                            \o << [cached |-> TRUE, so |-> Slice(i, i + 1)] >>,
                        c)
         ELSE SplitLoop(i + 1, stop, cur, acc, c)

\* Dataset._split_slice_obj without the piece that follows the last cached index
SplitSliceObjNoTail(so, c) ==
    IF so.num
    THEN << [cached |-> Contains(c, so.start), so |-> so] >>
    ELSE LET r == SplitLoop(so.start, so.stop, so.start, << >>, c) IN
         IF Len(r.slice_objs) = 0
         THEN << [cached |-> FALSE, so |-> so] >>
         ELSE r.slice_objs

\* Dataset._split_slice_obj
SplitSliceObj(so, c) ==
    IF so.num
    THEN << [cached |-> Contains(c, so.start), so |-> so] >>
    ELSE LET r == SplitLoop(so.start, so.stop, so.start, << >>, c) IN
         IF r.start < so.stop
         THEN r.slice_objs \o << [cached |-> FALSE, so |-> Slice(r.start, so.stop)] >>
         ELSE IF Len(r.slice_objs) = 0
              THEN << [cached |-> FALSE, so |-> so] >>
              ELSE r.slice_objs

\* ------------------------------------------------------------ base fetching
\* Dataset._default_base_slice_fn on the container: a point i is slice(i, i+1)
DefaultBaseSliceFn(so, dataset) ==
    IF so.num
    THEN PySlice(dataset, so.start, so.start + 1)
    ELSE PySlice(dataset, so.start, so.stop)

\* Dataset._get_base_item: slice the base, apply trans_fn to every element
GetBaseItem(so, dataset) ==
    LET base_dataset == DefaultBaseSliceFn(so, dataset) IN
    [i \in 1 .. Len(base_dataset) |-> TransFn(base_dataset[i])]

\* Dataset._default_slice_fn: re-slice the fetched segment to the request
DefaultSliceFn(so, sliced_dataset, dataset_size) ==
    IF so.num
    THEN [unit |-> TRUE, x |-> PySlice(sliced_dataset, 0, 1)]
    ELSE LET slice_size == IF so.stop > so.start
                           THEN so.stop - so.start
                           ELSE so.stop + dataset_size - so.start IN
         [unit |-> FALSE, x |-> PySlice(sliced_dataset, 0, slice_size)]

\* Dataset._get_item_from_slice_objs: join the one or two base items (the
\* base dataset of a stage of the given size is the container of that length)
GetItemFromSliceObjs(base_sos, so, size) ==
    DefaultSliceFn(so,
                   Concat([k \in 1 .. Len(base_sos) |->
                             GetBaseItem(base_sos[k], Container(size))]),
                   size)

\* Dataset._get_item_after_cache_n_wrap
GetItemAfterCacheNWrap(so, size) ==
    GetItemFromSliceObjs(WrapBaseSliceObj(so, size), so, size)

\* ------------------------------------------------------------ query algorithm
\* the loop of Dataset._add_to_cache over np.arange(so.start, so.stop - 1e-3, 1.)
\* storing item.slice(i) in place of item.slice(i - so.start)
RECURSIVE AddRangeAbsolute(_, _, _, _)
AddRangeAbsolute(c, i, so, item) ==
    IF i >= so.stop
    THEN [cache |-> c, err |-> FALSE]
    ELSE IF i + 1 > Len(item.x)
         THEN [cache |-> c, err |-> TRUE]
         ELSE LET r == CachePut(c, i, item.x[i + 1]) IN
              IF r.err THEN r ELSE AddRangeAbsolute(r.cache, i + 1, so, item)

\* the loop of Dataset._add_to_cache over np.arange(so.start, so.stop - 1e-3, 1.):
\* unit i of the piece is stored under key i (indexing past the item raises)
RECURSIVE AddRange(_, _, _, _)
AddRange(c, i, so, item) ==
    IF i >= so.stop
    THEN [cache |-> c, err |-> FALSE]
    ELSE IF i - so.start + 1 > Len(item.x)
         THEN [cache |-> c, err |-> TRUE]
         ELSE LET r == CachePut(c, i, item.x[i - so.start + 1]) IN
              IF r.err THEN r ELSE AddRange(r.cache, i + 1, so, item)

\* Dataset._add_to_cache with the loop bound so.stop - 1 in place of so.stop - 1e-3
AddToCacheShort(c, so, item) ==
    IF so.num
    THEN CachePut(c, so.start, item.x[1])
    ELSE AddRange(c, so.start, Slice(so.start, so.stop - 1), item)

\* Dataset._add_to_cache
AddToCache(c, so, item) ==
    IF so.num
    THEN CachePut(c, so.start, item.x[1])
    ELSE AddRange(c, so.start, so, item)

\* the second loop of Dataset._get_item: zip(sos_for_cache, items_for_cache)
RECURSIVE AddAll(_, _, _)
AddAll(c, sos, items) ==
    IF sos = << >>
    THEN [cache |-> c, err |-> FALSE]
    ELSE LET r == AddToCache(c, Head(sos), Head(items)) IN
         IF r.err THEN r ELSE AddAll(r.cache, Tail(sos), Tail(items))

\* item.map(lambda x, kc: x if isinstance(x, list) else [x])
AsList(item) == [unit |-> FALSE, x |-> item.x]

Uncached(pieces) == SelectSeq(pieces, LAMBDA p : ~p.cached)
Cached(pieces) == SelectSeq(pieces, LAMBDA p : p.cached)

\* the keys Dataset._add_to_cache puts for a piece, in order
KeysOf(so) ==
    IF so.num THEN << so.start >>
    ELSE [k \in 1 .. (IF so.stop > so.start THEN so.stop - so.start ELSE 0) |->
            so.start + k - 1]

\* the cache as it would be when piece k is reached if every uncached piece
\* were inserted as soon as it is computed
CacheAtLookupEager(c, pieces, k, caching, size) ==
    LET before == Uncached(SubSeq(pieces, 1, k - 1)) IN
    IF caching
    THEN AddAll(c, [j \in 1 .. Len(before) |-> before[j].so],
                [j \in 1 .. Len(before) |->
                    GetItemAfterCacheNWrap(before[j].so, size)]).cache
    ELSE c

\* the cache that the first loop of Dataset._get_item reads when it reaches
\* piece k: the cache the split was computed on, since the insertions wait for
\* the second loop
CacheAtLookup(c, pieces, k, caching, size) == c

\* Dataset._get_item: the result, the cache afterwards, the base requests made
\* (fetched), the cache keys read (hits) and put (put_keys), whether a put
\* raised (err), whether a read of the cache found its key absent (key_err)
GetItem(raw, c, caching, size) ==
    LET slice_obj == WrapSliceObj(raw, size)
        split_slice_objs == SplitSliceObj(slice_obj, c)
        absent == {k \in 1 .. Len(split_slice_objs) :
                     /\ split_slice_objs[k].cached
                     /\ ~Contains(CacheAtLookup(c, split_slice_objs, k, caching, size),
                                  split_slice_objs[k].so.start)}
        items == [k \in 1 .. Len(split_slice_objs) |->
                    IF split_slice_objs[k].cached
                    THEN [unit |-> TRUE,
                          x |-> IF k \in absent
                                THEN << >>
                                ELSE << CacheGet(CacheAtLookup(c, split_slice_objs, k,
                                                               caching, size),
                                                 split_slice_objs[k].so.start) >>]
                    ELSE GetItemAfterCacheNWrap(split_slice_objs[k].so, size)]
        missed == Uncached(split_slice_objs)
        sos_for_cache == IF caching
                         THEN [k \in 1 .. Len(missed) |-> missed[k].so]
                         ELSE << >>
        items_for_cache == IF caching
                           THEN [k \in 1 .. Len(missed) |->
                                   GetItemAfterCacheNWrap(missed[k].so, size)]
                           ELSE << >>
        added == AddAll(c, sos_for_cache, items_for_cache)
        hit == Cached(split_slice_objs)
    IN  [cache |-> added.cache,
         err |-> added.err,
         key_err |-> absent # {},
         fetched |-> Concat([k \in 1 .. Len(missed) |->
                               WrapBaseSliceObj(missed[k].so, size)]),
         hits |-> [k \in 1 .. Len(hit) |-> hit[k].so.start],
         put_keys |-> Concat([k \in 1 .. Len(sos_for_cache) |-> KeysOf(sos_for_cache[k])]),
         result |-> IF added.err
                    THEN [unit |-> FALSE, x |-> << >>]
                    ELSE IF Len(items) = 1
                         THEN IF slice_obj.num THEN items[1] ELSE AsList(items[1])
                         ELSE [unit |-> FALSE,
                               x |-> Concat([k \in 1 .. Len(items) |-> items[k].x])]]

\* ------------------------------------------------------------ the batch stage
\* (an assignment r = <expression> followed by code that reads r is written
\* CHOOSE out \in {<code> : r \in {<expression>}} : TRUE, the value of <code>
\* with the expression evaluated once)

\* Dataset.batch, batch_array: the list x cut into int(len(x) / batch_size)
\* stacks of batch_size consecutive elements
BatchArray(x, batch_size) ==
    [i \in 1 .. (Len(x) \div batch_size) |->
        SubSeq(x, (i - 1) * batch_size + 1, i * batch_size)]

\* base_slice_fn of Dataset.batch with the indices left unscaled
BatchBaseSliceObjUnscaled(so, batch_size) ==
    IF so.num
    THEN Slice(so.start, so.start + batch_size)
    ELSE Slice(so.start, so.start + batch_size * (so.stop - so.start))

\* Dataset.batch, base_slice_fn: the request made to the base dataset
BatchBaseSliceObj(so, batch_size) ==
    IF so.num
    THEN Slice(batch_size * so.start, batch_size * so.start + batch_size)
    ELSE Slice(batch_size * so.start, batch_size * so.stop)

\* Dataset._get_base_item on the batch stage: base_slice_fn queries the base
\* dataset (a Dataset, so dataset[slice] is its __getitem__ and moves its
\* cache c0), trans_fn batch_cont stacks the result (elementwise_query_fn False)
BatchGetBaseItem(so, st, c0, caching) ==
    CHOOSE out \in
        {[cache |-> r.cache, x |-> BatchArray(r.result.x, st.batch_size)] :
            r \in {GetItem(BatchBaseSliceObj(so, st.batch_size), c0, caching,
                           st.base_size)}} : TRUE

\* Dataset._get_item_from_slice_objs on the batch stage: the one or two base
\* items are fetched in turn and joined
RECURSIVE BatchGetBaseItems(_, _, _, _, _)
BatchGetBaseItems(base_sos, st, c0, caching, acc) ==
    IF base_sos = << >>
    THEN [cache |-> c0, x |-> acc]
    ELSE CHOOSE out \in
            {BatchGetBaseItems(Tail(base_sos), st, r.cache, caching, acc \o r.x) :
                r \in {BatchGetBaseItem(Head(base_sos), st, c0, caching)}} : TRUE

\* Dataset._get_item_after_cache_n_wrap on the batch stage
BatchGetItemAfterCacheNWrap(so, st, c0, caching) ==
    CHOOSE out \in
        {[cache |-> r.cache, item |-> DefaultSliceFn(so, r.x, st.size)] :
            r \in {BatchGetBaseItems(WrapBaseSliceObj(so, st.size), st, c0, caching,
                                     << >>)}} : TRUE

\* the first loop of Dataset._get_item on the batch stage: a cached piece is
\* read from the stage's cache c1, an uncached piece is fetched through the base
RECURSIVE BatchItems(_, _, _, _, _, _)
BatchItems(pieces, st, c1, c0, caching, acc) ==
    IF pieces = << >>
    THEN [cache |-> c0, items |-> acc]
    ELSE IF Head(pieces).cached
         THEN BatchItems(Tail(pieces), st, c1, c0, caching,
                         Append(acc, [unit |-> TRUE,
                                      x |-> << CacheGet(c1, Head(pieces).so.start) >>]))
         ELSE CHOOSE out \in
                 {BatchItems(Tail(pieces), st, c1, r.cache, caching, Append(acc, r.item)) :
                     r \in {BatchGetItemAfterCacheNWrap(Head(pieces).so, st, c0,
                                                        caching)}} : TRUE

\* Dataset._get_item on the batch stage: the result, the stage's cache and the
\* base dataset's cache afterwards, the keys read from the stage's cache (hits)
BatchGetItem(raw, st, c1, c0, caching) ==
    CHOOSE out \in {
    LET slice_obj == WrapSliceObj(raw, st.size)
        split_slice_objs == SplitSliceObj(slice_obj, c1)
        items == got.items
        missed == SelectSeq([k \in 1 .. Len(split_slice_objs) |-> k],
                            LAMBDA k : ~split_slice_objs[k].cached)
        sos_for_cache == IF caching
                         THEN [k \in 1 .. Len(missed) |-> split_slice_objs[missed[k]].so]
                         ELSE << >>
        items_for_cache == IF caching
                           THEN [k \in 1 .. Len(missed) |-> items[missed[k]]]
                           ELSE << >>
        added == AddAll(c1, sos_for_cache, items_for_cache)
    IN  [cache |-> added.cache,
         base_cache |-> got.cache,
         err |-> added.err,
         hits |-> [k \in 1 .. Len(Cached(split_slice_objs)) |->
                     Cached(split_slice_objs)[k].so.start],
         result |-> IF added.err
                    THEN [unit |-> FALSE, x |-> << >>]
                    ELSE IF Len(items) = 1
                         THEN IF slice_obj.num THEN items[1] ELSE AsList(items[1])
                         ELSE [unit |-> FALSE,
                               x |-> Concat([k \in 1 .. Len(items) |-> items[k].x])]]
    : got \in {BatchItems(SplitSliceObj(WrapSliceObj(raw, st.size), c1), st, c1, c0,
                          caching, << >>)}} : TRUE

\* -------------------------------------------------------------------- state
VARIABLES
    cache,          \* the Cache of the stage (or a bare Cache, under SpecCache)
    puts,           \* keys put into the bare Cache so far, oldest first
    put_err,        \* the last put on the bare Cache raised
    with_caching,   \* Dataset._with_caching
    nq,             \* queries issued on the stage so far
    last,           \* the last query: request, result, base requests, cache reads
    recency,        \* every key used so far, least recently used (hit or put) first
    hit_last,       \* keys whose most recent use was a cache hit
    pointed,        \* keys that have been the subject of a point query
    since,          \* since[k], k pointed: other indices fetched since the last point query k
    pool_pc,        \* the coordinator of the pooled stage: "idle" or "collect"
    pool_nq,        \* range queries dispatched to the pool so far
    sub_slices,     \* the sub-ranges of the pending fan-out, in dispatch order
    offset,         \* the random worker offset of the pending fan-out
    items_as_lists, \* the results collected so far by the pending fan-out
    slice_queues,   \* per worker: its input queue
    output_queues,  \* per worker: its output queue
    worker_job,     \* per worker: the request it took and is computing, or idle
    worker_cache,   \* per worker: the Cache of its copy of the stage
    timed_out,      \* some fan-out query has aborted on a timeout
    pool_last,      \* the last finished fan-out: request, result, outcome
    worker_state,   \* per worker process: "running", "exited", "crashed" or "terminated"
    end_pc,         \* the coordinator's position in Dataset._end_multiprocessing
    end_i,          \* the index of the worker its first loop has reached
    end_raised,     \* an error was raised inside its try block
    deleted,        \* _workers, _slice_queues and _output_queues were deleted
    end_calls,      \* invocations of Dataset._end_multiprocessing so far
    end_last,       \* how the last invocation ended: "none", "ok" or the error
    base_cache,     \* the Cache of the dataset that batch is called on
    batch_stage,    \* the stage returned by Dataset.batch: its constructor arguments
    batch_last,     \* the last query on the batch stage: request, result
    unbatched,      \* the outcome of calling unbatch on the batch stage
    fn_in,          \* the argument of the last call of Dataset._split_slice_obj
    fn_out,         \* what that call returned
    fan_in,         \* a fan-out on its own: the range, num_processes, the offset
    fan_out,        \* its sub-ranges and, for each, the worker it is put to
    failing,        \* the indices of the base dataset on which trans_fn raises
    aborted         \* the last Dataset._get_item of the coordinator raised in a fetch

cacheVars == << puts, put_err >>
stageVars == << with_caching, nq, last, recency, hit_last, pointed, since >>
poolVars == << pool_pc, pool_nq, sub_slices, offset, items_as_lists, slice_queues,
               output_queues, worker_job, worker_cache, timed_out, pool_last >>
endVars == << end_pc, end_i, end_raised, deleted, end_calls, end_last >>
lifeVars == << worker_state, endVars >>
batchVars == << base_cache, batch_stage, batch_last, unbatched >>
fnVars == << fn_in, fn_out, fan_in, fan_out >>
faultVars == << failing, aborted >>
vars == << cache, cacheVars, stageVars, poolVars, lifeVars, batchVars, fnVars, faultVars >>

Keys == 0 .. (Size - 1)
Workers == 0 .. (NumProcesses - 1)

NoResult == [unit |-> FALSE, x |-> << >>]
NoQuery == [query |-> Number(0), result |-> NoResult, fetched |-> << >>,
            hits |-> << >>, puts |-> << >>, repeated |-> FALSE,
            first_cold |-> FALSE, err |-> FALSE, key_err |-> FALSE]
NoJob == [qid |-> 0, so |-> Number(0)]
\* the None that Dataset._end_multiprocessing puts on a worker's input queue
Sentinel == [qid |-> 0 - 1, so |-> Number(0)]
NoPoolQuery == [query |-> Number(0), x |-> << >>, tags |-> << >>,
                outcome |-> "none", clean |-> TRUE]

StageIdle ==
    /\ with_caching = TRUE
    /\ nq = 0
    /\ last = NoQuery
    /\ recency = << >>
    /\ hit_last = {}
    /\ pointed = {}
    /\ since = [k \in Keys |-> {}]

NoBatchStage == [batch_size |-> 1, size |-> 0, float_size |-> FALSE,
                 base_size |-> 0]
NoBatchQuery == [query |-> Number(0), result |-> NoResult, err |-> FALSE,
                 hits |-> << >>, n |-> 0]

\* no teardown has begun, every worker process runs
PoolAlive ==
    /\ worker_state = [w \in Workers |-> "running"]
    /\ end_pc = "none"
    /\ end_i = 0
    /\ end_raised = FALSE
    /\ deleted = FALSE
    /\ end_calls = 0
    /\ end_last = "none"

NoCall == Slice(0, 0)
NoFanIn == [start |-> 0, stop |-> 0, num_processes |-> 0, offset |-> 0]
NoFanOut == [sub_slices |-> << >>, workers |-> << >>]

\* neither Dataset._split_slice_obj nor a fan-out has been called on its own
FnIdle ==
    /\ fn_in = NoCall
    /\ fn_out = << >>
    /\ fan_in = NoFanIn
    /\ fan_out = NoFanOut

\* trans_fn raises on no index
NoFault ==
    /\ failing = {}
    /\ aborted = FALSE

BatchAbsent ==
    /\ FnIdle
    /\ base_cache = NewCache(1)
    /\ batch_stage = NoBatchStage
    /\ batch_last = NoBatchQuery
    /\ unbatched = "none"

PoolAbsent ==
    /\ PoolAlive
    /\ BatchAbsent
    /\ pool_pc = "idle"
    /\ pool_nq = 0
    /\ sub_slices = << >>
    /\ offset = 0
    /\ items_as_lists = << >>
    /\ slice_queues = [w \in Workers |-> << >>]
    /\ output_queues = [w \in Workers |-> << >>]
    /\ worker_job = [w \in Workers |-> NoJob]
    /\ worker_cache = [w \in Workers |-> NewCache(1)]
    /\ timed_out = FALSE
    /\ pool_last = NoPoolQuery

\* ------------------------------------------------- the bare Cache under puts
InitCache ==
    /\ \E m \in 0 .. MaxCacheSize : cache = NewCache(m)
    /\ puts = << >>
    /\ put_err = FALSE
    /\ StageIdle
    /\ PoolAbsent
    /\ NoFault

\* cache[key] = value on the bare Cache
Put(key, value) ==
    /\ Len(puts) < MaxPuts
    /\ \E r \in {CachePut(cache, key, value)} :
        /\ cache' = r.cache
        /\ put_err' = r.err
    /\ puts' = Append(puts, key)
    /\ UNCHANGED << stageVars, poolVars, lifeVars, batchVars, fnVars, faultVars >>

NextCache == \E key \in CacheKeys, value \in CacheVals : Put(key, value)

SpecCache == InitCache /\ [][NextCache]_vars

\* ---------------------------------------------- the single-process stage
\* Dataset.__init__ with num_processes = 1, cache_size >= 1
Init ==
    /\ \E cs \in 1 .. MaxCacheSize : cache = NewCache(cs)
    /\ puts = << >>
    /\ put_err = FALSE
    /\ with_caching \in BOOLEAN
    /\ nq = 0
    /\ last = NoQuery
    /\ recency = << >>
    /\ hit_last = {}
    /\ pointed = {}
    /\ since = [k \in Keys |-> {}]
    /\ PoolAbsent
    /\ NoFault

\* move the keys of ks, in order, to the most-recently-used end of rec
RECURSIVE Touch(_, _)
Touch(rec, ks) ==
    IF ks = << >> THEN rec
    ELSE Touch(Append(Remove(rec, Head(ks)), Head(ks)), Tail(ks))

Range(s) == {s[k] : k \in 1 .. Len(s)}

\* the unit indices of a sequence of base requests
Units(sos) ==
    UNION {IF sos[k].num THEN {sos[k].start}
           ELSE sos[k].start .. (sos[k].stop - 1) : k \in 1 .. Len(sos)}

\* Dataset._get_base_item: the base indices that trans_fn is applied to when
\* the uncached piece so is fetched (each element of the one or two segments)
FetchedIndices(so, size) ==
    {i \in Units(WrapBaseSliceObj(so, size)) : i < size}

\* the uncached pieces of a request whose fetch raises, trans_fn raising on bad
FailingPieces(raw, c, size, bad) ==
    LET pieces == SplitSliceObj(WrapSliceObj(raw, size), c) IN
    {k \in 1 .. Len(pieces) :
        ~pieces[k].cached /\ FetchedIndices(pieces[k].so, size) \cap bad # {}}

\* Dataset._get_item raises inside its first loop
GetItemFails(raw, c, size, bad) ==
    bad # {} /\ FailingPieces(raw, c, size, bad) # {}

\* Dataset._get_item leaving its first loop on the error of the first piece
\* whose fetch raises: the cache is the one that piece was reached with
GetItemAborted(raw, c, caching, size, bad) ==
    LET pieces == SplitSliceObj(WrapSliceObj(raw, size), c)
        failed == FailingPieces(raw, c, size, bad)
        k == CHOOSE j \in failed : \A m \in failed : j <= m IN
    CacheAtLookup(c, pieces, k, caching, size)

\* Dataset.__getitem__ with num_processes < 2: the query is Dataset._get_item
Query(raw) ==
    /\ ~GetItemFails(raw, cache, Size, failing)
    /\ aborted' = FALSE
    /\ \E r \in {GetItem(raw, cache, with_caching, Size)} :
        /\ cache' = r.cache
        /\ last' = [query |-> raw, result |-> r.result, fetched |-> r.fetched,
                    hits |-> r.hits, puts |-> r.put_keys,
                    repeated |-> (nq > 0 /\ last.query = raw),
                    first_cold |-> (nq > 0 /\ last.query = raw /\ last.hits = << >>),
                    err |-> r.err, key_err |-> r.key_err]
        /\ recency' = Touch(Touch(recency, r.hits), r.put_keys)
        /\ hit_last' = (hit_last \cup Range(r.hits)) \ Range(r.put_keys)
        /\ pointed' = IF raw.num THEN pointed \cup {raw.start % Size} ELSE pointed
        /\ since' = [k \in Keys |->
                        IF (raw.num /\ k = raw.start % Size) \/ k \notin pointed
                        THEN {}
                        ELSE since[k] \cup (Units(r.fetched) \ {k})]
    /\ nq' = nq + 1
    /\ UNCHANGED << cacheVars, with_caching, poolVars, lifeVars, batchVars, fnVars,
                    failing >>

\* Dataset.__getitem__ with num_processes < 2 when a fetch of Dataset._get_item
\* raises: the error leaves the query, nothing is returned
QueryError(raw) ==
    /\ GetItemFails(raw, cache, Size, failing)
    /\ aborted' = TRUE
    /\ cache' = GetItemAborted(raw, cache, with_caching, Size, failing)
    /\ last' = [NoQuery EXCEPT !.query = raw]
    /\ nq' = nq + 1
    /\ UNCHANGED << cacheVars, with_caching, recency, hit_last, pointed, since,
                    poolVars, lifeVars, batchVars, fnVars, failing >>

PointQuery(i) == nq < MaxQueries /\ Query(Number(i))

RangeQuery(start, stop) == nq < MaxQueries /\ Query(Slice(start, stop))

Next ==
    \/ \E i \in RawStarts : PointQuery(i)
    \/ \E start \in RawStarts, stop \in RawStops : RangeQuery(start, stop)

Spec == Init /\ [][Next]_vars

\* the single-process stage built with a trans_fn that raises on one index
InitFaulty ==
    /\ \E cs \in 1 .. MaxCacheSize : cache = NewCache(cs)
    /\ puts = << >>
    /\ put_err = FALSE
    /\ with_caching \in BOOLEAN
    /\ nq = 0
    /\ last = NoQuery
    /\ recency = << >>
    /\ hit_last = {}
    /\ pointed = {}
    /\ since = [k \in Keys |-> {}]
    /\ PoolAbsent
    /\ \E k \in Keys : failing = {k}
    /\ aborted = FALSE

PointQueryError(i) == nq < MaxQueries /\ QueryError(Number(i))

RangeQueryError(start, stop) == nq < MaxQueries /\ QueryError(Slice(start, stop))

NextFaulty ==
    \/ \E i \in RawStarts : PointQuery(i)
    \/ \E start \in RawStarts, stop \in RawStops : RangeQuery(start, stop)
    \/ \E i \in RawStarts : PointQueryError(i)
    \/ \E start \in RawStarts, stop \in RawStops : RangeQueryError(start, stop)

SpecFaulty == InitFaulty /\ [][NextFaulty]_vars

\* the same stage under a caller that issues point queries only
PointQueryOnly(i) == nq < MaxPointQueries /\ Query(Number(i))

NextPoints == \E i \in RawStarts : PointQueryOnly(i)

SpecPoints == Init /\ [][NextPoints]_vars

\* ------------------------------------------------ the stage with a worker pool
\* np.round of the rational p / q (q > 0): halves go to the even neighbour
RoundHalfEven(p, q) ==
    LET f == p \div q
        r == p % q IN
    IF 2 * r < q THEN f
    ELSE IF 2 * r > q THEN f + 1
    ELSE IF f % 2 = 0 THEN f ELSE f + 1

\* the sub-ranges of the fan-out with num_processes of them whatever the width
SubSlicesNoMin(start, stop, num_processes) ==
    LET slice_size == stop - start
        num_sub_slices == num_processes
        slice_points == [i \in 0 .. num_sub_slices |->
                           RoundHalfEven(start * num_sub_slices + i * slice_size,
                                         num_sub_slices)] IN
    [i \in 1 .. num_sub_slices |-> Slice(slice_points[i - 1], slice_points[i])]

\* Dataset.__getitem__, the sub-ranges of the fan-out: slice_points are
\* np.round(np.linspace(start, stop, num_sub_slices + 1))
SubSlices(start, stop, num_processes) ==
    LET slice_size == stop - start
        num_sub_slices == Min(slice_size, num_processes)
        slice_points == [i \in 0 .. num_sub_slices |->
                           RoundHalfEven(start * num_sub_slices + i * slice_size,
                                         num_sub_slices)] IN
    [i \in 1 .. num_sub_slices |-> Slice(slice_points[i - 1], slice_points[i])]

\* Dataset.__getitem__: int((i + offset) % self._num_processes), the worker
\* whose input queue sub-range i (counted from 0) is put on
PutQueue(i, off) == (i + off) % NumProcesses

\* the worker whose output is read for sub-range i, with the offset left out
GetQueueNoOffset(i, off) == i % NumProcesses

\* Dataset.__getitem__: int((i + offset) % self._num_processes), the worker
\* whose output queue the result of sub-range i is read from
GetQueue(i, off) == (i + off) % NumProcesses

\* Dataset.__init__ with num_processes = NumProcesses, with_caching and
\* cache_size left at their defaults (True, 1): every worker holds a copy of the stage built from the same
\* arguments (its own empty Cache)
PoolStart ==
    /\ cache = NewCache(1)
    /\ worker_cache = [w \in Workers |-> NewCache(1)]
    /\ puts = << >>
    /\ put_err = FALSE
    /\ with_caching = TRUE
    /\ nq = 0
    /\ last = NoQuery
    /\ recency = << >>
    /\ hit_last = {}
    /\ pointed = {}
    /\ since = [k \in Keys |-> {}]
    /\ pool_pc = "idle"
    /\ pool_nq = 0
    /\ sub_slices = << >>
    /\ offset = 0
    /\ items_as_lists = << >>
    /\ slice_queues = [w \in Workers |-> << >>]
    /\ output_queues = [w \in Workers |-> << >>]
    /\ worker_job = [w \in Workers |-> NoJob]
    /\ timed_out = FALSE
    /\ pool_last = NoPoolQuery
    /\ PoolAlive
    /\ BatchAbsent

\* the pooled stage with a trans_fn that raises on no index
InitPool == PoolStart /\ NoFault

\* the puts of the fan-out: sub-range i goes to the queue of worker PutQueue(i)
RECURSIVE PutAll(_, _, _, _, _)
PutAll(queues, sos, i, off, qid) ==
    IF i >= Len(sos)
    THEN queues
    ELSE PutAll([queues EXCEPT ![PutQueue(i, off)] =
                    Append(@, [qid |-> qid, so |-> sos[i + 1]])],
                sos, i + 1, off, qid)

\* Dataset.__getitem__ on a range with num_processes > 1, up to the puts:
\* split the range, draw the offset, put every sub-range on a worker's queue
Dispatch(start, stop, off) ==
    /\ pool_pc = "idle"
    /\ end_pc = "none"
    /\ ~deleted
    /\ pool_nq < MaxPoolQueries
    /\ start < stop
    /\ stop - start <= Size
    /\ sub_slices' = SubSlices(start, stop, NumProcesses)
    /\ offset' = off
    /\ pool_nq' = pool_nq + 1
    /\ slice_queues' = PutAll(slice_queues, sub_slices', 0, off, pool_nq')
    /\ items_as_lists' = << >>
    /\ pool_pc' = "collect"
    /\ pool_last' = [query |-> Slice(start, stop), x |-> << >>, tags |-> << >>,
                     outcome |-> "pending", clean |-> ~timed_out]
    /\ UNCHANGED << cache, cacheVars, lifeVars, batchVars, fnVars, faultVars, stageVars, output_queues, worker_job,
                    worker_cache, timed_out >>

\* Dataset._worker_fn taking the newest entry of its input queue, not the oldest
WorkerGetLast(w) ==
    /\ worker_state[w] = "running"
    /\ worker_job[w] = NoJob
    /\ slice_queues[w] # << >>
    /\ IF slice_queues[w][Len(slice_queues[w])] = Sentinel
       THEN /\ worker_state' = [worker_state EXCEPT ![w] = "exited"]
            /\ UNCHANGED worker_job
       ELSE /\ worker_job' = [worker_job EXCEPT ![w] = slice_queues[w][Len(slice_queues[w])]]
            /\ UNCHANGED worker_state
    /\ slice_queues' = [slice_queues EXCEPT ![w] = SubSeq(@, 1, Len(@) - 1)]
    /\ UNCHANGED << cache, cacheVars, endVars, batchVars, fnVars, faultVars, stageVars, pool_pc,
                    pool_nq, sub_slices, offset, items_as_lists, output_queues,
                    worker_cache, timed_out, pool_last >>

\* Dataset._worker_fn: index_queue.get returns a request, or the None on
\* which the worker leaves its loop and its process exits
WorkerGet(w) ==
    /\ worker_state[w] = "running"
    /\ worker_job[w] = NoJob
    /\ slice_queues[w] # << >>
    /\ IF Head(slice_queues[w]) = Sentinel
       THEN /\ worker_state' = [worker_state EXCEPT ![w] = "exited"]
            /\ UNCHANGED worker_job
       ELSE /\ worker_job' = [worker_job EXCEPT ![w] = Head(slice_queues[w])]
            /\ UNCHANGED worker_state
    /\ slice_queues' = [slice_queues EXCEPT ![w] = Tail(@)]
    /\ UNCHANGED << cache, cacheVars, endVars, batchVars, fnVars, faultVars, stageVars, pool_pc, pool_nq,
                    sub_slices, offset, items_as_lists, output_queues, worker_cache,
                    timed_out, pool_last >>

\* Dataset._worker_fn: output_queue.put(dataset._get_item(slice_obj)); the
\* result carries the query and sub-range it was computed for
WorkerPut(w) ==
    /\ worker_state[w] = "running"
    /\ worker_job[w] # NoJob
    /\ ~GetItemFails(worker_job[w].so, worker_cache[w], Size, failing)
    /\ \E r \in {GetItem(worker_job[w].so, worker_cache[w], with_caching, Size)} :
        /\ worker_cache' = [worker_cache EXCEPT ![w] = r.cache]
        /\ output_queues' = [output_queues EXCEPT ![w] =
                                Append(@, [qid |-> worker_job[w].qid,
                                           so |-> worker_job[w].so,
                                           x |-> r.result.x])]
    /\ worker_job' = [worker_job EXCEPT ![w] = NoJob]
    /\ UNCHANGED << cache, cacheVars, lifeVars, batchVars, fnVars, faultVars, stageVars, pool_pc, pool_nq, sub_slices, offset,
                    items_as_lists, slice_queues, timed_out, pool_last >>

\* Dataset._worker_fn: dataset._get_item(slice_obj) raises; nothing catches
\* the error, the worker process ends without putting a result
WorkerCrash(w) ==
    /\ worker_state[w] = "running"
    /\ worker_job[w] # NoJob
    /\ GetItemFails(worker_job[w].so, worker_cache[w], Size, failing)
    /\ worker_state' = [worker_state EXCEPT ![w] = "crashed"]
    /\ worker_cache' = [worker_cache EXCEPT ![w] =
                            GetItemAborted(worker_job[w].so, worker_cache[w],
                                           with_caching, Size, failing)]
    /\ worker_job' = [worker_job EXCEPT ![w] = NoJob]
    /\ UNCHANGED << cache, cacheVars, endVars, batchVars, fnVars, faultVars, stageVars,
                    pool_pc, pool_nq, sub_slices, offset, items_as_lists, slice_queues,
                    output_queues, timed_out, pool_last >>

\* Dataset.__getitem__: the next output_queues[...].get(timeout=5.0) returns
Collect ==
    /\ pool_pc = "collect"
    /\ Len(items_as_lists) < Len(sub_slices)
    /\ LET q == GetQueue(Len(items_as_lists), offset) IN
        /\ output_queues[q] # << >>
        /\ items_as_lists' = Append(items_as_lists, Head(output_queues[q]))
        /\ output_queues' = [output_queues EXCEPT ![q] = Tail(@)]
    /\ UNCHANGED << cache, cacheVars, lifeVars, batchVars, fnVars, faultVars, stageVars, pool_pc, pool_nq, sub_slices, offset,
                    slice_queues, worker_job, worker_cache, timed_out, pool_last >>

\* Dataset.__getitem__: the next output_queues[...].get(timeout=5.0) raises
\* queue.Empty, which ends the query; the requests already put stay queued
Timeout ==
    /\ pool_pc = "collect"
    /\ Len(items_as_lists) < Len(sub_slices)
    /\ output_queues[GetQueue(Len(items_as_lists), offset)] = << >>
    /\ pool_pc' = "idle"
    /\ timed_out' = TRUE
    /\ pool_last' = [pool_last EXCEPT !.outcome = "timeout", !.clean = FALSE]
    /\ UNCHANGED << cache, cacheVars, lifeVars, batchVars, fnVars, faultVars, stageVars, pool_nq, sub_slices, offset,
                    items_as_lists, slice_queues, output_queues, worker_job,
                    worker_cache >>

\* items_as_lists_true = [self._get_item(slice_obj) for slice_obj in sub_slices]:
\* the coordinator recomputes every sub-range inline on its own cache
RECURSIVE InlineAll(_, _, _)
InlineAll(c, sos, caching) ==
    IF sos = << >> THEN c
    ELSE InlineAll(GetItem(Head(sos), c, caching, Size).cache, Tail(sos), caching)

\* items_as_lists_true when a fetch may raise: the sub-ranges are recomputed
\* in turn, each insertion made before the next sub-range is begun, up to the
\* first Dataset._get_item that raises
RECURSIVE InlineAbort(_, _, _, _)
InlineAbort(c, sos, caching, bad) ==
    IF sos = << >>
    THEN [raised |-> FALSE, cache |-> c]
    ELSE IF GetItemFails(Head(sos), c, Size, bad)
         THEN [raised |-> TRUE,
               cache |-> GetItemAborted(Head(sos), c, caching, Size, bad)]
         ELSE InlineAbort(GetItem(Head(sos), c, caching, Size).cache, Tail(sos),
                          caching, bad)

\* Dataset.__getitem__ after the last get: recompute inline, compare (the
\* mismatch log is not modelled), return list_join(items_as_lists)
Return ==
    /\ pool_pc = "collect"
    /\ Len(items_as_lists) = Len(sub_slices)
    /\ failing = {} \/ ~InlineAbort(cache, sub_slices, with_caching, failing).raised
    /\ cache' = InlineAll(cache, sub_slices, with_caching)
    /\ pool_last' = [pool_last EXCEPT
                        !.x = Concat([k \in 1 .. Len(items_as_lists) |->
                                        items_as_lists[k].x]),
                        !.tags = [k \in 1 .. Len(items_as_lists) |->
                                    [qid |-> items_as_lists[k].qid,
                                     so |-> items_as_lists[k].so]],
                        !.outcome = "returned"]
    /\ pool_pc' = "idle"
    /\ UNCHANGED << cacheVars, lifeVars, batchVars, fnVars, faultVars, stageVars, pool_nq, sub_slices, offset, items_as_lists,
                    slice_queues, output_queues, worker_job, worker_cache, timed_out >>

\* Dataset.__getitem__ after the last get, when a Dataset._get_item of the
\* inline recomputation raises: the error leaves the query
ReturnError ==
    /\ pool_pc = "collect"
    /\ Len(items_as_lists) = Len(sub_slices)
    /\ failing # {}
    /\ \E r \in {InlineAbort(cache, sub_slices, with_caching, failing)} :
        /\ r.raised
        /\ cache' = r.cache
    /\ pool_last' = [pool_last EXCEPT !.outcome = "error"]
    /\ pool_pc' = "idle"
    /\ UNCHANGED << cacheVars, lifeVars, batchVars, fnVars, faultVars, stageVars, pool_nq,
                    sub_slices, offset, items_as_lists, slice_queues, output_queues,
                    worker_job, worker_cache, timed_out >>

\* a point query fanned out like a range: the request goes to a worker's queue
PoolPointQueryFannedOut(i) ==
    /\ pool_pc = "idle"
    /\ end_pc = "none"
    /\ nq < MaxPoolPoints
    /\ nq' = nq + 1
    /\ slice_queues' = [slice_queues EXCEPT ![PutQueue(0, 0)] =
                            Append(@, [qid |-> pool_nq, so |-> Number(i)])]
    /\ UNCHANGED << cache, cacheVars, lifeVars, batchVars, fnVars, faultVars, with_caching, last, recency,
                    hit_last, pointed, since, pool_pc, pool_nq, sub_slices, offset,
                    items_as_lists, output_queues, worker_job, worker_cache, timed_out,
                    pool_last >>

\* Dataset.__getitem__ on a number with num_processes > 1: the query is
\* Dataset._get_item on the coordinator's own stage
PoolPointQuery(i) ==
    /\ pool_pc = "idle"
    /\ end_pc = "none"
    /\ nq < MaxPoolPoints
    /\ Query(Number(i))

NextPool ==
    \/ \E start \in PoolStarts, stop \in 1 .. (Size + 1), off \in Workers :
          Dispatch(start, stop, off)
    \/ \E i \in Keys : PoolPointQuery(i)
    \/ \E w \in Workers : WorkerGet(w)
    \/ \E w \in Workers : WorkerPut(w)
    \/ Collect
    \/ Timeout
    \/ Return

SpecPool == InitPool /\ [][NextPool]_vars

\* ------------------------------- the pooled stage with a trans_fn that raises
\* Dataset.__getitem__ on a number with num_processes > 1, the fetch raising
PoolPointQueryError(i) ==
    /\ pool_pc = "idle"
    /\ end_pc = "none"
    /\ nq < MaxPoolPoints
    /\ QueryError(Number(i))

\* the pooled stage built with a trans_fn that raises on one index of the base
InitPoolFaulty ==
    /\ PoolStart
    /\ \E k \in Keys : failing = {k}
    /\ aborted = FALSE

NextPoolFaulty ==
    \/ \E start \in PoolStarts, stop \in 1 .. (Size + 1), off \in Workers :
          Dispatch(start, stop, off)
    \/ \E i \in Keys : PoolPointQuery(i)
    \/ \E i \in Keys : PoolPointQueryError(i)
    \/ \E w \in Workers : WorkerGet(w)
    \/ \E w \in Workers : WorkerPut(w)
    \/ \E w \in Workers : WorkerCrash(w)
    \/ Collect
    \/ Timeout
    \/ Return
    \/ ReturnError

SpecPoolFaulty == InitPoolFaulty /\ [][NextPoolFaulty]_vars

\* ------------------------------------------- the teardown of the worker pool
\* Dataset._end_multiprocessing is entered (explicitly or from __del__) with
\* num_processes > 1: once the attributes are deleted, self._workers raises
\* AttributeError in the try block and again in the finally block
EndMultiprocessing ==
    /\ pool_pc = "idle"
    /\ end_pc = "none"
    /\ end_calls < MaxTeardowns
    /\ end_calls' = end_calls + 1
    /\ IF deleted
       THEN /\ end_last' = "AttributeError"
            /\ UNCHANGED << end_pc, end_i, end_raised >>
       ELSE /\ end_pc' = "put"
            /\ end_i' = 0
            /\ end_raised' = FALSE
            /\ UNCHANGED end_last
    /\ UNCHANGED << cache, cacheVars, batchVars, fnVars, faultVars, stageVars, poolVars, worker_state,
                    deleted >>

\* the first loop: self._slice_queues[i].put(None)
EndPut ==
    /\ end_pc = "put"
    /\ end_i < NumProcesses
    /\ slice_queues' = [slice_queues EXCEPT ![end_i] = Append(@, Sentinel)]
    /\ end_pc' = "join"
    /\ UNCHANGED << cache, cacheVars, batchVars, fnVars, faultVars, stageVars, pool_pc, pool_nq, sub_slices,
                    offset, items_as_lists, output_queues, worker_job, worker_cache,
                    timed_out, pool_last, worker_state, end_i, end_raised, deleted,
                    end_calls, end_last >>

\* the first loop: w.join(timeout=5.0) returns, the worker has exited or not
EndJoin ==
    /\ end_pc = "join"
    /\ end_i' = end_i + 1
    /\ end_pc' = "put"
    /\ UNCHANGED << cache, cacheVars, batchVars, fnVars, faultVars, stageVars, poolVars, worker_state,
                    end_raised, deleted, end_calls, end_last >>

\* the two loops that close the queues; control falls into the finally block
EndClose ==
    /\ end_pc = "put"
    /\ end_i = NumProcesses
    /\ end_pc' = "finally"
    /\ end_i' = 0
    /\ UNCHANGED << cache, cacheVars, batchVars, fnVars, faultVars, stageVars, poolVars, worker_state,
                    end_raised, deleted, end_calls, end_last >>

\* put(None) or join raises: control leaves the try block for the finally block
EndError ==
    /\ end_pc \in {"put", "join"}
    /\ end_i < NumProcesses
    /\ end_raised' = TRUE
    /\ end_pc' = "finally"
    /\ end_i' = 0
    /\ UNCHANGED << cache, cacheVars, batchVars, fnVars, faultVars, stageVars, poolVars, worker_state,
                    deleted, end_calls, end_last >>

\* the finally block with w.terminate() left out
EndTerminateSkipped ==
    /\ end_pc = "finally"
    /\ end_i < NumProcesses
    /\ end_i' = end_i + 1
    /\ UNCHANGED << cache, cacheVars, batchVars, fnVars, faultVars, stageVars, poolVars, worker_state,
                    end_pc, end_raised, deleted, end_calls, end_last >>

\* the finally block: if w.is_alive(): w.terminate()
EndTerminate ==
    /\ end_pc = "finally"
    /\ end_i < NumProcesses
    /\ worker_state' = [worker_state EXCEPT ![end_i] =
                            IF @ = "running" THEN "terminated" ELSE @]
    /\ end_i' = end_i + 1
    /\ UNCHANGED << cache, cacheVars, batchVars, fnVars, faultVars, stageVars, poolVars, end_pc,
                    end_raised, deleted, end_calls, end_last >>

\* the finally block: del self._workers, self._slice_queues, self._output_queues;
\* the call returns, or re-raises the error of the try block
EndDelete ==
    /\ end_pc = "finally"
    /\ end_i = NumProcesses
    /\ deleted' = TRUE
    /\ end_pc' = "none"
    /\ end_i' = 0
    /\ end_last' = IF end_raised THEN "error" ELSE "ok"
    /\ UNCHANGED << cache, cacheVars, batchVars, fnVars, faultVars, stageVars, poolVars, worker_state,
                    end_raised, end_calls >>

NextPoolLife ==
    \/ NextPool
    \/ EndMultiprocessing
    \/ EndPut
    \/ EndJoin
    \/ EndClose
    \/ EndError
    \/ EndTerminate
    \/ EndDelete

SpecPoolLife == InitPool /\ [][NextPoolLife]_vars

\* the pooled stage, from construction to teardown, under a caller that issues
\* range queries only
NextPoolRanges ==
    \/ \E start \in PoolStarts, stop \in 1 .. (Size + 1), off \in Workers :
          Dispatch(start, stop, off)
    \/ \E w \in Workers : WorkerGet(w)
    \/ \E w \in Workers : WorkerPut(w)
    \/ Collect
    \/ Timeout
    \/ Return
    \/ EndMultiprocessing
    \/ EndPut
    \/ EndJoin
    \/ EndClose
    \/ EndError
    \/ EndTerminate
    \/ EndDelete

\* WorkerPut(w) is enabled exactly while worker w runs and holds a request
WorkerPutEnabled(w) == worker_state[w] = "running" /\ worker_job[w] # NoJob

\* the same stage with every worker process scheduled fairly: a worker that
\* can take a request eventually does so, and so does a worker that has a
\* result to compute and put. The second condition is WF_vars(WorkerPut(w))
\* written by its enabling condition: a WorkerPut(w) step ends in a state
\* where WorkerPut(w) is disabled, so WF_vars(WorkerPut(w)) is
\* []<>~WorkerPutEnabled(w)
SpecPoolFair ==
    /\ InitPool
    /\ [][NextPoolRanges]_vars
    /\ \A w \in Workers : WF_vars(WorkerGet(w))
    /\ \A w \in Workers : []<>~WorkerPutEnabled(w)

\* ----------------------------------------------- a batch stage and its base
\* Dataset.batch on a dataset of the given size and cache_size: the arguments
\* of the new stage (size = float(size / batch_size), for batch_size dividing
\* size; cache_size = int(math.ceil(cache_size / batch_size)))
Batch(size, cache_size, batch_size) ==
    [batch_size |-> batch_size,
     size |-> size \div batch_size,
     float_size |-> TRUE,
     base_size |-> size,
     cache_size |-> (cache_size + batch_size - 1) \div batch_size]

\* a dataset of size b * m over a container, and the stage batch(b) built on it
InitBatch ==
    /\ \E b \in 1 .. MaxBatchSize, m \in 1 .. MaxBatches, cs \in 1 .. MaxCacheSize :
          /\ batch_stage = Batch(b * m, cs, b)
          /\ base_cache = NewCache(cs)
          /\ cache = NewCache(batch_stage.cache_size)
    /\ with_caching \in BOOLEAN
    /\ batch_last = NoBatchQuery
    /\ unbatched = "none"
    /\ FnIdle
    /\ NoFault
    /\ puts = << >>
    /\ put_err = FALSE
    /\ nq = 0
    /\ last = NoQuery
    /\ recency = << >>
    /\ hit_last = {}
    /\ pointed = {}
    /\ since = [k \in Keys |-> {}]
    /\ PoolAlive
    /\ pool_pc = "idle"
    /\ pool_nq = 0
    /\ sub_slices = << >>
    /\ offset = 0
    /\ items_as_lists = << >>
    /\ slice_queues = [w \in Workers |-> << >>]
    /\ output_queues = [w \in Workers |-> << >>]
    /\ worker_job = [w \in Workers |-> NoJob]
    /\ worker_cache = [w \in Workers |-> NewCache(1)]
    /\ timed_out = FALSE
    /\ pool_last = NoPoolQuery

\* Dataset.__getitem__ on the batch stage (num_processes = 1)
BatchQuery(raw) ==
    /\ nq < MaxBatchQueries
    /\ \E r \in {BatchGetItem(raw, batch_stage, cache, base_cache, with_caching)} :
        /\ cache' = r.cache
        /\ base_cache' = r.base_cache
        /\ batch_last' = [query |-> raw, result |-> r.result, err |-> r.err,
                          hits |-> r.hits, n |-> batch_last.n + 1]
    /\ nq' = nq + 1
    /\ UNCHANGED << cacheVars, with_caching, last, recency, hit_last, pointed, since,
                    poolVars, lifeVars, fnVars, faultVars, batch_stage, unbatched >>

\* Dataset.__getitem__ on the base dataset itself, a point query
BaseQuery(i) ==
    /\ nq < MaxBatchQueries
    /\ i < batch_stage.base_size
    /\ base_cache' = GetItem(Number(i), base_cache, with_caching,
                             batch_stage.base_size).cache
    /\ nq' = nq + 1
    /\ UNCHANGED << cache, cacheVars, with_caching, last, recency, hit_last, pointed,
                    since, poolVars, lifeVars, fnVars, faultVars, batch_stage, batch_last, unbatched >>

\* Dataset.unbatch called on the batch stage: its first loop is
\* for i in range(self._size), and range raises TypeError on a float
Unbatch ==
    /\ unbatched = "none"
    /\ unbatched' = IF batch_stage.float_size THEN "TypeError" ELSE "constructed"
    /\ UNCHANGED << cache, cacheVars, stageVars, poolVars, lifeVars, fnVars, faultVars,
                    base_cache, batch_stage, batch_last >>

NextBatch ==
    \/ \E k \in (0 - 1) .. MaxBatches : BatchQuery(Number(k))
    \/ \E start \in 0 .. MaxBatches, stop \in 0 .. (MaxBatches + 1) :
          BatchQuery(Slice(start, stop))
    \/ \E i \in 0 .. (MaxBatchSize * MaxBatches - 1) : BaseQuery(i)
    \/ Unbatch

SpecBatch == InitBatch /\ [][NextBatch]_vars

\* ------------------------------------- Dataset._split_slice_obj on its own
\* a stage whose cache can hold every index, no call made yet
InitSplit ==
    /\ cache = NewCache(Size)
    /\ puts = << >>
    /\ put_err = FALSE
    /\ StageIdle
    /\ PoolAbsent
    /\ NoFault

\* self._cache[key] = the element at key: the cache comes to hold any set of keys
SplitPut(key) ==
    /\ fn_out = << >>
    /\ ~Contains(cache, key)
    /\ cache' = CachePut(cache, key, TransFn(BaseDataset[key + 1])).cache
    /\ UNCHANGED << cacheVars, stageVars, poolVars, lifeVars, batchVars, fnVars, faultVars >>

\* Dataset._split_slice_obj(slice(start, stop, 1), self._cache)
Split(start, stop) ==
    /\ fn_out = << >>
    /\ fn_in' = Slice(start, stop)
    /\ fn_out' = SplitSliceObj(Slice(start, stop), cache)
    /\ UNCHANGED << cache, cacheVars, stageVars, poolVars, lifeVars, batchVars,
                    fan_in, fan_out, faultVars >>

NextSplit ==
    \/ \E key \in Keys : SplitPut(key)
    \/ \E start \in 0 .. Size, stop \in 0 .. Size : Split(start, stop)

SpecSplit == InitSplit /\ [][NextSplit]_vars

\* ----------------------------------- the fan-out of a range query on its own
\* a stage on which no fan-out has been computed yet
InitFanOut ==
    /\ cache = NewCache(1)
    /\ puts = << >>
    /\ put_err = FALSE
    /\ StageIdle
    /\ PoolAbsent
    /\ NoFault

\* Dataset.__getitem__ on slice(start, stop) with num_processes workers, up to
\* the puts: the sub-ranges, the offset drawn by np.random.randint, and for
\* sub-range i (counted from 0) the queue int((i + offset) % num_processes)
FanOut(start, stop, num_processes, off) ==
    /\ fan_in = NoFanIn
    /\ start < stop
    /\ fan_in' = [start |-> start, stop |-> stop, num_processes |-> num_processes,
                  offset |-> off]
    /\ \E sos \in {SubSlices(start, stop, num_processes)} :
          fan_out' = [sub_slices |-> sos,
                      workers |-> [k \in 1 .. Len(sos) |->
                                     ((k - 1) + off) % num_processes]]
    /\ UNCHANGED << cache, cacheVars, stageVars, poolVars, lifeVars, batchVars,
                    fn_in, fn_out, faultVars >>

NextFanOut ==
    \E start \in RawStarts, width \in 1 .. MaxFanWidth, n \in 2 .. MaxWorkers :
        \E off \in 0 .. (n - 1) : FanOut(start, start + width, n, off)

SpecFanOut == InitFanOut /\ [][NextFanOut]_vars

\* ------------------------------------------------------------------- claims
\* the result the stage defines for unit index i: trans_fn of base element i
ElementAt(i) == TransFn(BaseDataset[(i % Size) + 1])

\* the elements at start, start + 1, ..., start + n - 1, indices taken mod Size
ElementsFrom(start, n) == [k \in 1 .. n |-> ElementAt(start + k - 1)]

\* the set of the m distinct keys most recently put, scanning s from its end
RECURSIVE LastDistinct(_, _, _)
LastDistinct(s, m, acc) ==
    IF s = << >> \/ Cardinality(acc) >= m
    THEN acc
    ELSE LastDistinct(SubSeq(s, 1, Len(s) - 1), m, acc \cup {s[Len(s)]})

StoredKeys(c) == DOMAIN c.dict

\* C4: a cache hit on i makes i the most recently used entry: when i is evicted
\* and its most recent use was a hit, no entry that stays in the cache was used
\* less recently than i.
C4_HitMakesMostRecentlyUsed ==
    [][\A i \in StoredKeys(cache) \ StoredKeys(cache') :
         \A j \in StoredKeys(cache) \cap StoredKeys(cache') :
            i \in hit_last' => IndexOf(recency', j) > IndexOf(recency', i)]_vars

\* C5: once more than max_size distinct keys have been put, the cache holds
\* exactly the max_size most recently put distinct keys, and every other key
\* that was put is not contained.
C5_CacheHoldsMostRecentPuts ==
    Cardinality(Range(puts)) > cache.max_size =>
        /\ StoredKeys(cache) = LastDistinct(puts, cache.max_size, {})
        /\ \A k \in Range(puts) \ LastDistinct(puts, cache.max_size, {}) :
              ~Contains(cache, k)

\* C5 witness: capacity 2, a key was put again before a put evicted another key
C5_Witness ==
    /\ cache.max_size = 2
    /\ Len(puts) = 4
    /\ Cardinality(Range(puts)) = 3
    /\ puts[1] = puts[3]
    /\ ~Contains(cache, puts[2])
    /\ Contains(cache, puts[1])

\* the wrapped form of the last query
LastWrapped == WrapSliceObj(last.query, Size)

\* the last query is a range query repeating the query issued just before it
LastRepeatsRange == nq > 0 /\ with_caching /\ last.repeated /\ ~last.query.num

C7_ResultIndependentOfCache ==
    nq > 0 =>
        last.result = GetItem(last.query, NewCache(cache.max_size), FALSE, Size).result

\* C7 witness: a range result assembled from a cached unit and two fetched pieces
C7_Witness ==
    /\ nq > 0
    /\ ~last.query.num
    /\ Len(last.hits) = 1
    /\ Len(last.fetched) = 2
    /\ Len(last.result.x) = 3

\* C8: a point query for a key that was point-queried before, with fewer than
\* cache_size other distinct indices fetched since, fetches nothing.
C8_RepeatedPointQueryIsHit ==
    [][(/\ nq' = nq + 1
        /\ with_caching
        /\ last'.query.num
        /\ (last'.query.start % Size) \in pointed
        /\ Cardinality(since[last'.query.start % Size]) < cache.max_size)
       => last'.fetched = << >>]_vars

\* the last query is the raw range [start, stop) with 0 < stop < start < Size
LastWrapsAround ==
    /\ nq > 0
    /\ ~last.query.num
    /\ 0 < last.query.stop
    /\ last.query.stop < last.query.start
    /\ last.query.start < Size

\* C9: a wrap-around range [start, stop), 0 < stop < start < N, returns the
\* (N - start) + stop elements start, ..., N-1, 0, ..., stop-1, fetched as the
\* two base ranges [start, N) and [0, stop).
C9_WrapAroundRange ==
    LastWrapsAround =>
        /\ ~last.result.unit
        /\ last.result.x = ElementsFrom(last.query.start,
                                        (Size - last.query.start) + last.query.stop)
        /\ last.fetched = << Slice(last.query.start, Size), Slice(0, last.query.stop) >>

\* C9 witness: the range [Size - 1, 1) was queried and returned two elements
C9_Witness ==
    /\ LastWrapsAround
    /\ last.query = Slice(Size - 1, 1)
    /\ Len(last.result.x) = 2

\* C10: a range [start, stop) with 0 < stop - start <= N returns stop - start
\* elements, the k-th being the element at index (start + k) mod N.
C10_SliceConsistentWithSize ==
    (/\ nq > 0
     /\ ~last.query.num
     /\ 0 < last.query.stop - last.query.start
     /\ last.query.stop - last.query.start <= Size)
    => last.result.x = ElementsFrom(last.query.start,
                                    last.query.stop - last.query.start)

\* the last fan-out query returned, and no query has timed out so far
ReturnedClean == pool_last.outcome = "returned" /\ pool_last.clean

\* C1: with no timeout, the result of a fan-out range query equals the result
\* the single-process stage returns for the same range.
C1_PoolEqualsSingleProcess ==
    ReturnedClean =>
        pool_last.x = GetItem(pool_last.query, NewCache(cache.max_size),
                              FALSE, Size).result.x

\* C2: while no earlier query has timed out, the k-th result collected by the
\* coordinator was computed for the k-th dispatched sub-range of this query,
\* and the returned concatenation is in request order.
C2_CollectedInDispatchOrder ==
    pool_last.clean =>
        /\ \A k \in 1 .. Len(items_as_lists) :
              /\ items_as_lists[k].qid = pool_nq
              /\ items_as_lists[k].so = sub_slices[k]
        /\ pool_last.outcome = "returned" =>
              pool_last.x = Concat([k \in 1 .. Len(sub_slices) |->
                                      GetItem(sub_slices[k], NewCache(cache.max_size),
                                              FALSE, Size).result.x])

\* C2 witness: a fan-out over every worker, dispatched with a non-zero offset,
\* returned its joined result
C2_Witness ==
    /\ ReturnedClean
    /\ offset = 1
    /\ Len(sub_slices) = NumProcesses
    /\ Len(pool_last.x) >= 3
    /\ worker_cache[0] # worker_cache[1]

\* C3: after a query aborted on a timeout, every later query that returns
\* holds only results computed for its own sub-ranges.
C3_UsableAfterTimeout ==
    (pool_last.outcome = "returned" /\ timed_out) =>
        \A k \in 1 .. Len(sub_slices) :
            pool_last.tags[k] = [qid |-> pool_nq, so |-> sub_slices[k]]

\* the first query of the stage was a range query with caching enabled, on the
\* empty cache, of a width the cache can hold
FirstRangeFits ==
    /\ nq = 1
    /\ with_caching
    /\ ~last.query.num
    /\ 0 < last.query.stop - last.query.start
    /\ last.query.stop - last.query.start <= cache.max_size

\* C11: after a range query on an empty cache whose capacity is at least the
\* width of the range, every unit index covered by the range, wrapping around
\* the boundary or not, is a key of the cache mapped to that index's element.
C11_RangeUnitsCached ==
    FirstRangeFits =>
        \A k \in 0 .. (last.query.stop - last.query.start - 1) :
            /\ Contains(cache, (last.query.start + k) % Size)
            /\ CacheGet(cache, (last.query.start + k) % Size)
                   = ElementAt(last.query.start + k)

\* batch k of the batch stage: the results of the base dataset at the indices
\* b*k, ..., b*k + b - 1, in that order
BatchAt(k) ==
    [j \in 1 .. batch_stage.batch_size |->
        TransFn(Container(batch_stage.base_size)[batch_stage.batch_size * k + j])]

\* C12 as stated: unbatch on the stage batch(b), b dividing N, is constructed
\* (and then has size N and returns the per-index results of the base).
C12_BatchUnbatchRoundTrip ==
    unbatched # "none" => unbatched = "constructed"

\* C17: batch(b) on a dataset of size N divisible by b has size N / b; point
\* query k returns batch k, and a range query [i, j) within the stage returns
\* the batches i, ..., j - 1 in order, each the b base elements b*k .. b*k+b-1.
C17_BatchContents ==
    /\ batch_stage.size * batch_stage.batch_size = batch_stage.base_size
    /\ (/\ batch_last.n > 0
        /\ batch_last.query.num
        /\ batch_last.query.start \in 0 .. (batch_stage.size - 1))
       => /\ batch_last.result.unit
          /\ batch_last.result.x = << BatchAt(batch_last.query.start) >>
    /\ (/\ batch_last.n > 0
        /\ ~batch_last.query.num
        /\ 0 <= batch_last.query.start
        /\ batch_last.query.start < batch_last.query.stop
        /\ batch_last.query.stop <= batch_stage.size)
       => batch_last.result.x =
             [p \in 1 .. (batch_last.query.stop - batch_last.query.start) |->
                 BatchAt(batch_last.query.start + p - 1)]

\* C17 witness: a range query returned two batches of two elements, one of
\* them read from the cache of the batch stage
C17_Witness ==
    /\ batch_last.n = 2
    /\ batch_last.query = Slice(0, 2)
    /\ batch_stage.batch_size = 2
    /\ batch_stage.size = 2
    /\ Len(batch_last.result.x) = 2
    /\ Len(batch_last.result.x[2]) = 2
    /\ Len(batch_last.hits) = 1
    /\ Len(base_cache.used_keys) = 2

\* an invocation of Dataset._end_multiprocessing has finished and none is running
EndFinished == end_calls > 0 /\ end_pc = "none"

\* C13: teardown is idempotent: an invocation after teardown has already run
\* changes nothing and raises no error.
C13_TeardownIdempotent ==
    (EndFinished /\ end_calls > 1) => end_last # "AttributeError"

C15_FanOutLeavesCoordinatorCache ==
    [][(pool_pc = "collect" \/ pool_pc' = "collect") => cache' = cache]_vars

\* C16: a point query on the stage with a worker pool is executed inline: it
\* returns the element of its index and leaves every input queue and every
\* output queue as it was.
C16_PointQueryInline ==
    [][nq' = nq + 1 =>
         /\ slice_queues' = slice_queues
         /\ output_queues' = output_queues
         /\ last'.result = [unit |-> TRUE, x |-> << ElementAt(last'.query.start) >>]]_vars

\* C16 witness: after a fan-out query returned, the only point query issued on
\* the pooled stage was answered from the coordinator's cache
C16_Witness ==
    /\ nq = 1
    /\ last.query.num
    /\ last.result.unit
    /\ Len(last.hits) = 1
    /\ pool_last.outcome = "returned"

\* C18: no query reads the cache for an absent key: every key a query looks
\* up was found in the cache by its split and is still there when it is read.
C18_NoAbsentKeyRead ==
    nq > 0 => ~last.key_err

\* C18 witness: a query read a key from the cache and afterwards, inserting the
\* units it had fetched, evicted that key
C18_Witness ==
    /\ nq > 0
    /\ ~last.key_err
    /\ Len(last.hits) = 1
    /\ Len(last.puts) >= 1
    /\ ~Contains(cache, last.hits[1])
    /\ IndexOf(last.result.x, ElementAt(last.hits[1])) > 0

\* the pieces returned for the range fn_in are contiguous, in order, and cover
\* exactly [start, stop)
SplitCovers ==
    /\ fn_out # << >>
    /\ fn_out[1].so.start = fn_in.start
    /\ fn_out[Len(fn_out)].so.stop = fn_in.stop
    /\ \A k \in 1 .. (Len(fn_out) - 1) : fn_out[k].so.stop = fn_out[k + 1].so.start

\* every piece flagged cached has width 1 and its index is in the cache
SplitCachedPieces ==
    \A k \in 1 .. Len(fn_out) :
        fn_out[k].cached =>
            /\ fn_out[k].so.stop = fn_out[k].so.start + 1
            /\ Contains(cache, fn_out[k].so.start)

\* no piece flagged uncached contains a cached index, no two of them are adjacent
SplitUncachedPieces ==
    /\ \A k \in 1 .. Len(fn_out) :
          ~fn_out[k].cached =>
              \A i \in fn_out[k].so.start .. (fn_out[k].so.stop - 1) : ~Contains(cache, i)
    /\ \A k \in 1 .. (Len(fn_out) - 1) : fn_out[k].cached \/ fn_out[k + 1].cached

\* every piece flagged uncached is non-empty
SplitUncachedNonEmpty ==
    \A k \in 1 .. Len(fn_out) :
        ~fn_out[k].cached => fn_out[k].so.start < fn_out[k].so.stop

\* when no index of the range is cached the result is the single entry (False, R)
SplitAllMiss ==
    (\A i \in fn_in.start .. (fn_in.stop - 1) : ~Contains(cache, i))
    => fn_out = << [cached |-> FALSE, so |-> fn_in] >>

\* C19 as stated: for every range with stop >= start and every cache state the
\* pieces cover the range, cached pieces are cached units, uncached pieces are
\* non-empty maximal uncached runs, and an all-miss range comes back whole.
C19_SplitPartitionsRange ==
    (fn_out # << >> /\ fn_in.stop >= fn_in.start) =>
        /\ SplitCovers
        /\ SplitCachedPieces
        /\ SplitUncachedPieces
        /\ SplitUncachedNonEmpty
        /\ SplitAllMiss

\* C19 amended: the same, except that the empty range (stop = start) comes
\* back as the single entry (False, R), whose piece is empty; every uncached
\* piece of a non-empty range is non-empty.
C19_SplitPartitionsNonEmptyRange ==
    (fn_out # << >> /\ fn_in.stop >= fn_in.start) =>
        /\ SplitCovers
        /\ SplitCachedPieces
        /\ SplitUncachedPieces
        /\ fn_in.stop > fn_in.start => SplitUncachedNonEmpty
        /\ SplitAllMiss

\* C19 witness: the range [0, Size) with only its middle index cached came back
\* as an uncached piece, a cached unit and an uncached piece
C19_Witness ==
    /\ fn_in = Slice(0, Size)
    /\ StoredKeys(cache) = {1}
    /\ Len(fn_out) = 3
    /\ ~fn_out[1].cached
    /\ fn_out[2].cached
    /\ ~fn_out[3].cached

\* a sub-range of query q waits on the input queue of worker w
Enqueued(w, q) == \E k \in 1 .. Len(slice_queues[w]) : slice_queues[w][k].qid = q

\* the result for the sub-range of query q is on the output queue of worker w
Produced(w, q) == \E k \in 1 .. Len(output_queues[w]) : output_queues[w][k].qid = q

C21_FanOutPartitionsRange ==
    fan_in # NoFanIn =>
        LET sos == fan_out.sub_slices
            ws == fan_out.workers IN
        /\ Len(sos) = Min(fan_in.stop - fan_in.start, fan_in.num_processes)
        /\ \A k \in 1 .. Len(sos) :
              /\ sos[k].start \in Int
              /\ sos[k].stop \in Int
              /\ sos[k].start < sos[k].stop
        /\ sos[1].start = fan_in.start
        /\ sos[Len(sos)].stop = fan_in.stop
        /\ \A k \in 1 .. (Len(sos) - 1) : sos[k].stop = sos[k + 1].start
        /\ Len(ws) = Len(sos)
        /\ \A k \in 1 .. Len(ws) : ws[k] \in 0 .. (fan_in.num_processes - 1)
        /\ \A j, k \in 1 .. Len(ws) : j # k => ws[j] # ws[k]

\* C21 witness: a range of width 5 on 2 workers, whose middle slice point 2.5
\* is rounded to 2, was split in two and put to workers 1 and 0
C21_Witness ==
    /\ fan_in = [start |-> 0, stop |-> 5, num_processes |-> 2, offset |-> 1]
    /\ fan_out.sub_slices = << Slice(0, 2), Slice(2, 5) >>
    /\ fan_out.workers = << 1, 0 >>

\* C22: for every capacity max_size >= 0 and every sequence of puts, each put
\* completes without error and leaves at most max_size keys, the recency list
\* free of duplicates and holding exactly the keys of the key-value store.
C22_PutKeepsCacheConsistent ==
    /\ ~put_err
    /\ Cardinality(StoredKeys(cache)) <= cache.max_size
    /\ Range(cache.used_keys) = StoredKeys(cache)
    /\ Len(cache.used_keys) = Cardinality(Range(cache.used_keys))

\* C23: for every integer point index i and size N, wrap(i, N) = i mod N, in
\* [0, N): the point query i returns the element at i mod N and touches no cache
\* key but i mod N, so that the point queries i and i + N return the same result
\* and the later of the two, issued next, is a hit on the key the earlier left.
C23_PointIndexWrapsModSize ==
    /\ [](\A i \in RawStarts :
            /\ WrapSliceObj(Number(i), Size) = Number(i % Size)
            /\ WrapSliceObj(Number(i), Size).start \in 0 .. (Size - 1))
    /\ []((nq > 0 /\ last.query.num) =>
            /\ last.result = [unit |-> TRUE, x |-> << ElementAt(last.query.start) >>]
            /\ Range(last.hits) \cup Range(last.puts) \subseteq {last.query.start % Size}
            /\ with_caching => Contains(cache, last.query.start % Size)
            /\ StoredKeys(cache) \subseteq 0 .. (Size - 1))
    /\ [][(/\ nq > 0
            /\ last.query.num
            /\ last'.query.num
            /\ \/ last'.query.start = last.query.start + Size
               \/ last.query.start = last'.query.start + Size)
           => /\ last'.result = last.result
              /\ with_caching => /\ last'.hits = << last.query.start % Size >>
                                 /\ last'.puts = << >>]_vars

\* C23 witness: the point query -1 was a hit on key Size - 1, left by an
\* earlier point query, and returned the last element of the dataset
C23_Witness ==
    /\ nq = 2
    /\ last.query = Number(0 - 1)
    /\ last.hits = << Size - 1 >>
    /\ last.result.x = << TransFn(BaseDataset[Size]) >>

\* a Dataset._get_item called directly by __getitem__ that raises while
\* fetching leaves the cache as it was: nothing is inserted before every piece
\* of the request has been computed
GetItemAbortLeavesCache == [][(aborted' /\ nq' # nq) => cache' = cache]_vars

\* an aborted query whose third piece raised after its first was fetched
GetItemAbortWitness ==
    /\ aborted
    /\ failing = {2}
    /\ last.query = Slice(0, Size)
    /\ StoredKeys(cache) = {1}

\* C24: a query that aborts with an error while fetching or transforming one of
\* its uncached pieces leaves the cache of the stage it was issued on as it
\* was before the query: the cache does not change from the moment a fan-out
\* is dispatched to the moment it aborts, nor in an inline query that aborts.
C24_AbortedQueryLeavesCache ==
    [][(\/ aborted' /\ nq' # nq
        \/ pool_pc' = "collect"
        \/ pool_pc = "collect" /\ pool_last'.outcome \in {"error", "timeout"})
       => cache' = cache]_vars

====
